---- MODULE Spec2Model ----
(***************************************************************************)
(* Bagibagi -> Roblox bridge server (src/server.js).                       *)
(*                                                                         *)
(* Strings are sequences of one-character strings, so that the handle      *)
(* extraction and the donor key template are computed character by         *)
(* character.  JavaScript null/undefined is the sentinel Null.  A JSON     *)
(* body is a record; a field the sender left out is absent from DOMAIN.    *)
(* Every await of the webhook handler is a separate step, so concurrent    *)
(* requests interleave exactly where the event loop lets them.             *)
(***************************************************************************)
EXTENDS Integers, Sequences, FiniteSets, TLC

VARIABLES
    BAGIBAGI_TOKEN,       \* process.env secret, "" when not configured
    DISCORD_WEBHOOK_URL,  \* Null when not configured
    now,                  \* wall clock, one tick per received webhook
    donations,            \* table donations: donor_key -> row
    req,                  \* webhook requests in flight or answered
    totalReq              \* a get-player-total request in flight or answered

vars == <<BAGIBAGI_TOKEN, DISCORD_WEBHOOK_URL, now, donations, req, totalReq>>

---------------------------------------------------------------------------
(* Bounds of the model *)

\* number of webhook requests that may be in flight together
MaxReq == 2

Reqs == 1..MaxReq

---------------------------------------------------------------------------
(* Strings *)

Null == <<"NULL">>

EmptyStr == <<>>

\* JavaScript truthiness of a string-or-null value
Truthy(s) == s # Null /\ s # EmptyStr

\* a || b
OrElse(a, b) == IF Truthy(a) THEN a ELSE b

LowerLetters ==
    <<"a","b","c","d","e","f","g","h","i","j","k","l","m",
      "n","o","p","q","r","s","t","u","v","w","x","y","z">>

UpperLetters ==
    <<"A","B","C","D","E","F","G","H","I","J","K","L","M",
      "N","O","P","Q","R","S","T","U","V","W","X","Y","Z">>

DigitChars == {"0","1","2","3","4","5","6","7","8","9"}

\* the character class [A-Za-z0-9_.]
HandleChars ==
    {LowerLetters[i] : i \in 1..26} \cup {UpperLetters[i] : i \in 1..26}
        \cup DigitChars \cup {"_", "."}

\* the quantifier {1,20}
HandleMax == 20

\* length of the run of handle characters of msg starting at position i,
\* cut at HandleMax (the regex is greedy)
RECURSIVE RunLen(_, _)
RunLen(msg, i) ==
    IF i > Len(msg) \/ msg[i] \notin HandleChars THEN 0
    ELSE LET rest == RunLen(msg, i + 1)
         IN  IF rest >= HandleMax THEN HandleMax ELSE rest + 1

\* positions where /@([A-Za-z0-9_.]{1,20})/ matches
MatchStarts(msg) ==
    {i \in 1..Len(msg) : msg[i] = "@" /\ i < Len(msg) /\ msg[i + 1] \in HandleChars}

extractAtUsername(message) ==
    IF ~Truthy(message) THEN Null
    ELSE IF MatchStarts(message) = {} THEN Null
    ELSE LET i == CHOOSE j \in MatchStarts(message) :
                      \A k \in MatchStarts(message) : j <= k
         IN  SubSeq(message, i + 1, i + RunLen(message, i + 1))

S_user == <<"u","s","e","r",":">>
S_bagibagi == <<"b","a","g","i","b","a","g","i",":">>
S_undefined == <<"u","n","d","e","f","i","n","e","d">>
S_null == <<"n","u","l","l">>

---------------------------------------------------------------------------
(* JSON bodies *)

Field(payload, f) == IF f \in DOMAIN payload THEN payload[f] ELSE Null

\* template-literal rendering of a text field: undefined prints as
\* "undefined", null as "null"
Render(payload, f) ==
    IF f \notin DOMAIN payload THEN S_undefined
    ELSE IF payload[f] = Null THEN S_null
    ELSE payload[f]

bagibagiName(payload) ==
    OrElse(Field(payload, "name"), OrElse(Field(payload, "bagibagi_name"), Null))

\* amount is the field the code converts, so its JSON value carries its
\* JSON type: a number (with the numeral of the body), a text, or Null
JsonNumber(numeral) == <<"number", numeral>>
JsonString(text) == <<"string", text>>

\* A Number value is a record: of kind "integer" with its sign and the
\* decimal digits of its magnitude (none for 0), when it is an integer
\* below 2^63 in magnitude; else of kind "NaN", "Infinity", "fraction" (a
\* number with a fraction) or "large" (an integer from 2^63 on), without
\* digits. The digits are those toString prints, which is how the
\* database receives the number (server.js lines 142-151); from 2^53 on
\* they are the shortest that denote the double, not the double's own.
\* The int8 values of the table are records of kind "integer" as well.
Integer(neg, digits) ==
    [kind |-> "integer", neg |-> neg /\ digits # <<>>, digits |-> digits]

Zero == Integer(FALSE, <<>>)

NaN == [kind |-> "NaN", neg |-> FALSE, digits |-> <<>>]
Infinity == [kind |-> "Infinity", neg |-> FALSE, digits |-> <<>>]
NegInfinity == [kind |-> "Infinity", neg |-> TRUE, digits |-> <<>>]

\* F(v), with v evaluated once
With(v, F(_)) == CHOOSE r \in {F(x) : x \in {v}} : TRUE

\* a function on 1..n as the tuple of its values
Tuple(f) == <<>> \o f

DigitSeq == <<"0","1","2","3","4","5","6","7","8","9">>

DigitOf(c) == CHOOSE d \in 0..9 : DigitSeq[d + 1] = c

DigitsOnly(text) == \A i \in 1..Len(text) : text[i] \in DigitChars

\* the number the digits from .. to of the text denote in the base
RECURSIVE PlaceValue(_, _, _, _)
PlaceValue(text, from, to, base) ==
    IF to < from THEN 0
    ELSE PlaceValue(text, from, to - 1, base) * base + DigitOf(text[to])

DigitsValue(text) == PlaceValue(text, 1, Len(text), 10)

\* StrWhiteSpaceChar: blank, tab, LF, CR, FF, VT, NBSP, BOM, U+1680 (the
\* further Unicode spaces, LS and PS cannot be written in a string here)
WhiteSpaceChars == {" ", "\t", "\n", "\r", "\f", "", " ", "﻿", " "}

\* the positions of the text that hold none of the characters
Others(text, chars) == {i \in 1..Len(text) : text[i] \notin chars}

First(positions) == CHOOSE i \in positions : \A j \in positions : i <= j

Last(positions) == CHOOSE i \in positions : \A j \in positions : j <= i

StripLeft(text, chars) ==
    With(Others(text, chars), LAMBDA rest :
        IF rest = {} THEN <<>> ELSE SubSeq(text, First(rest), Len(text)))

StripRight(text, chars) ==
    With(Others(text, chars), LAMBDA rest :
        IF rest = {} THEN <<>> ELSE SubSeq(text, 1, Last(rest)))

\* StringToNumber strips white space first
TrimLeft(text) == StripLeft(text, WhiteSpaceChars)

TrimRight(text) == StripRight(text, WhiteSpaceChars)

\* the number of digits the text starts with
DigitRun(text) ==
    With(Others(text, DigitChars), LAMBDA rest :
        IF rest = {} THEN Len(text) ELSE First(rest) - 1)

StripLeadingZeros(text) == StripLeft(text, {"0"})

StripTrailingZeros(text) == StripRight(text, {"0"})

Zeros(n) == Tuple([i \in 1..n |-> "0"])

\* a <= b for digit texts of one length
DigitsLeq(a, b) ==
    With({i \in 1..Len(a) : a[i] # b[i]}, LAMBDA differ :
        differ = {} \/ DigitOf(a[First(differ)]) < DigitOf(b[First(differ)]))

\* a <= b for digit texts without leading zeros
NumberLeq(a, b) == Len(a) < Len(b) \/ (Len(a) = Len(b) /\ DigitsLeq(a, b))

PadTo(text, n) == text \o Zeros(n - Len(text))

\* 0.a <= 0.b for the digits after the point
FractionLeq(a, b) ==
    With(IF Len(a) > Len(b) THEN Len(a) ELSE Len(b), LAMBDA n :
    With(PadTo(a, n), LAMBDA x :
    With(PadTo(b, n), LAMBDA y : DigitsLeq(x, y))))

\* the digit text plus one
Increment(digits) ==
    With(Others(digits, {"9"}), LAMBDA rest :
        IF rest = {} THEN <<"1">> \o Zeros(Len(digits))
        ELSE With(Last(rest), LAMBDA at :
                Tuple([i \in 1..Len(digits) |->
                    IF i < at THEN digits[i]
                    ELSE IF i = at THEN DigitSeq[DigitOf(digits[i]) + 2]
                    ELSE "0"])))

\* the digits after the point of 1 - 0.digits, for digits that end in a
\* digit other than 0
Complement(digits) ==
    Tuple([i \in 1..Len(digits) |->
        IF i < Len(digits) THEN DigitSeq[10 - DigitOf(digits[i])]
        ELSE DigitSeq[11 - DigitOf(digits[i])]])

\* the quotient of the digit text by 2^k, k at most 9, on as many places:
\* the remainder the digits before a place leave is that of the k digits
\* before it, as 2^k divides 10^k
DivideByPowerOfTwo(digits, k) ==
    Tuple([i \in 1..Len(digits) |->
        DigitSeq[((((PlaceValue(digits, IF i > k THEN i - k ELSE 1, i - 1, 10)
                      % (2 ^ k)) * 10) + DigitOf(digits[i])) \div (2 ^ k)) + 1]])

\* the quotient of the digit text by 2^k: for k beyond 9 the quotient by
\* 2^first, then the quotient of that by the rest
RECURSIVE ShiftRight(_, _)
ShiftRight(digits, k) ==
    IF k = 0 THEN digits
    ELSE IF k <= 9 THEN DivideByPowerOfTwo(digits, k)
    ELSE With(9 * ((k + 17) \div 18), LAMBDA first :
         With(ShiftRight(digits, first), LAMBDA quotient :
             ShiftRight(quotient, k - first)))

\* the j digits after the point of 2^-j
HalfPowerDigits(j) ==
    With(<<"1">> \o Zeros(j), LAMBDA one : Tail(ShiftRight(one, j)))

\* the count of binary digits of a number
RECURSIVE BitLength(_)
BitLength(digits) ==
    With(StripLeadingZeros(digits), LAMBDA d :
        IF Len(d) < 4 /\ DigitsValue(d) < 2 ^ 9
        THEN Cardinality({k \in 0..8 : 2 ^ k <= DigitsValue(d)})
        ELSE 9 + BitLength(DivideByPowerOfTwo(d, 9)))

\* the digits of a natural number
RECURSIVE DigitsOfNat(_)
DigitsOfNat(n) ==
    IF n = 0 THEN <<>> ELSE DigitsOfNat(n \div 10) \o <<DigitSeq[(n % 10) + 1]>>

PadLeft(text, n) == Zeros(n - Len(text)) \o text

\* the sum of two digit texts: a place takes a carry when a place after
\* it exceeds 9 and the places between them hold 9
Add(a, b) ==
    With((IF Len(a) > Len(b) THEN Len(a) ELSE Len(b)) + 1, LAMBDA n :
    With(PadLeft(a, n), LAMBDA x :
    With(PadLeft(b, n), LAMBDA y :
    With(Tuple([i \in 1..n |-> DigitOf(x[i]) + DigitOf(y[i])]), LAMBDA sums :
        StripLeadingZeros(Tuple([i \in 1..n |->
            DigitSeq[((sums[i]
                       + (IF \E j \in (i + 1)..n :
                                /\ sums[j] > 9
                                /\ \A k \in (i + 1)..(j - 1) : sums[k] = 9
                          THEN 1 ELSE 0)) % 10) + 1]]))))))

\* the difference a - b of two digit texts, a >= b: a place lends when a
\* place after it falls below 0 and the places between them hold 0
Sub(a, b) ==
    With(Len(a), LAMBDA n :
    With(PadLeft(b, n), LAMBDA y :
    With(Tuple([i \in 1..n |-> DigitOf(a[i]) - DigitOf(y[i])]), LAMBDA diffs :
        StripLeadingZeros(Tuple([i \in 1..n |->
            DigitSeq[((diffs[i] + 10
                       - (IF \E j \in (i + 1)..n :
                                /\ diffs[j] < 0
                                /\ \A k \in (i + 1)..(j - 1) : diffs[k] = 0
                          THEN 1 ELSE 0)) % 10) + 1]])))))

\* the remainder of the first to digits of the text by the modulus
RECURSIVE Remainder(_, _, _)
Remainder(digits, to, modulus) ==
    IF to = 0 THEN 0
    ELSE ((Remainder(digits, to - 1, modulus) * 10) + DigitOf(digits[to])) % modulus

\* twice the digit text: a place takes a carry from a digit above 4 after it
Double(digits) ==
    With(<<"0">> \o digits, LAMBDA x :
        StripLeadingZeros(Tuple([i \in 1..Len(x) |->
            DigitSeq[(((2 * DigitOf(x[i])) % 10)
                      + (IF i < Len(x) /\ DigitOf(x[i + 1]) > 4 THEN 1 ELSE 0)) + 1]])))

RECURSIVE TimesPowerOfTwo(_, _)
TimesPowerOfTwo(digits, k) ==
    IF k = 0 THEN digits
    ELSE With(Double(digits), LAMBDA twice : TimesPowerOfTwo(twice, k - 1))

\* the decimal digits of a number in binary digits, 21 of them at a time
RECURSIVE BitsToDigits(_)
BitsToDigits(bits) ==
    IF Len(bits) <= 21 THEN DigitsOfNat(PlaceValue(bits, 1, Len(bits), 2))
    ELSE With(BitsToDigits(SubSeq(bits, 1, Len(bits) - 21)), LAMBDA high :
         With(TimesPowerOfTwo(high, 21), LAMBDA shifted :
         With(DigitsOfNat(PlaceValue(bits, Len(bits) - 20, Len(bits), 2)), LAMBDA low :
             Add(shifted, low))))

\* 2^52 - 1: from 2^52 on every double is an integer
LastFraction == <<"4","5","0","3","5","9","9","6","2","7","3","7","0","4","9","5">>

\* the range of int8: 2^63 - 1 above, 2^63 below
Int8Max == <<"9","2","2","3","3","7","2","0","3","6","8","5","4","7","7","5","8","0","7">>

Int8MinMagnitude == <<"9","2","2","3","3","7","2","0","3","6","8","5","4","7","7","5","8","0","8">>

\* 2^54 - 1: a magnitude becomes Infinity from 2^1024 - 2^970 on, half
\* way from the largest double to 2^1024, that is when its quotient by
\* 2^970 reaches 2^54 - 1
InfinityQuotient == <<"1","8","0","1","4","3","9","8","5","0","9","4","8","1","9","8","3">>

\* StrUnsignedDecimalLiteral: digits, a fraction point, digits, an exponent
\* part (the digits before or after the point may be missing, not both)
DecimalParts(text) ==
    With(DigitRun(text), LAMBDA w :
    With(w < Len(text) /\ text[w + 1] = ".", LAMBDA hasPoint :
    With(SubSeq(text, IF hasPoint THEN w + 2 ELSE w + 1, Len(text)), LAMBDA afterPoint :
    With(IF hasPoint THEN DigitRun(afterPoint) ELSE 0, LAMBDA f :
    With(SubSeq(afterPoint, f + 1, Len(afterPoint)), LAMBDA expText :
    With(Len(expText) > 1 /\ expText[2] \in {"+", "-"}, LAMBDA expSigned :
    With(IF expSigned THEN SubSeq(expText, 3, Len(expText))
         ELSE IF expText # <<>> THEN Tail(expText)
         ELSE <<>>, LAMBDA expDigits :
        [ok |-> /\ w + f > 0
                /\ \/ expText = <<>>
                   \/ /\ Head(expText) \in {"e", "E"}
                      /\ expDigits # <<>>
                      /\ DigitsOnly(expDigits),
         digits |-> SubSeq(text, 1, w) \o SubSeq(afterPoint, 1, f),
         fracLen |-> f,
         expNeg |-> expSigned /\ expText[2] = "-",
         expDigits |-> StripLeadingZeros(expDigits)])))))))

\* the double next to whole + 0.frac, for whole below 2^52 and frac
\* ending in a digit other than 0: the integers are doubles there, and the
\* doubles about an integer n of b binary digits lie 2^(b - 53) from it, so
\* that the number rounds to n up to half that distance (the tie included,
\* as the integer has the even significand), and to a double with a
\* fraction otherwise
RoundedNear(whole, frac) ==
    With(54 - BitLength(whole), LAMBDA j :
    With(HalfPowerDigits(j), LAMBDA half :
    With(Complement(frac), LAMBDA left :
        IF whole # <<>> /\ FractionLeq(frac, half)
        THEN [kind |-> "integer", digits |-> whole]
        ELSE IF FractionLeq(left, half)
        THEN [kind |-> "integer", digits |-> Increment(whole)]
        ELSE [kind |-> "fraction", digits |-> <<>>])))

\* the number of the digit text when below 10000, and 10000 otherwise
Capped(digits) ==
    With(StripLeadingZeros(digits), LAMBDA d :
        IF Len(d) > 4 THEN 10000 ELSE DigitsValue(d))

\* how far the number lies above a multiple of 10^z (10000: far)
Above(digits, z) == Capped(SubSeq(digits, Len(digits) - z + 1, Len(digits)))

\* how far the number lies below the next multiple of 10^z (10000: far)
Below(digits, z) ==
    With(SubSeq(digits, Len(digits) - z + 1, Len(digits)), LAMBDA tail :
        IF z <= 4 THEN (10 ^ z) - DigitsValue(tail)
        ELSE IF \A i \in 1..(z - 4) : tail[i] = "9"
        THEN 10000 - DigitsValue(SubSeq(tail, z - 3, z))
        ELSE 10000)

\* the distance d lies within the half h, half way itself when the
\* significand is even
Within(d, h, even) == IF even THEN d <= h ELSE d < h

\* Number::toString of a double from 2^53 on, a multiple of 2^s of 53 + s
\* binary digits: the doubles next to it lie 2^s from it (the one below
\* a power of two half that), the numbers up to half way round to it, and
\* toString prints the one of them that ends in the most zeros, the
\* nearest of those
ShortestDigits(digits, s) ==
    With(Remainder(digits, Len(digits), 2 ^ (s + 1)) = 0, LAMBDA even :
    With(BitLength(Sub(digits, <<"1">>)) < 53 + s, LAMBDA power :
    With(2 ^ (s - 1), LAMBDA half :
    With(IF power THEN half \div 2 ELSE half, LAMBDA lowHalf :
    With({z \in 0..(Len(digits) - 1) :
            \/ Above(digits, z) = 0
            \/ Within(Above(digits, z), lowHalf, even)
            \/ Within(Below(digits, z), half, even)}, LAMBDA fit :
    With(Last(fit), LAMBDA z :
    With(SubSeq(digits, 1, Len(digits) - z), LAMBDA front :
        IF \/ Above(digits, z) = 0
           \/ /\ Within(Above(digits, z), lowHalf, even)
              /\ Above(digits, z) < Below(digits, z)
        THEN front \o Zeros(z)
        ELSE Increment(front) \o Zeros(z))))))))

\* a double that is an integer, by kind, with the digits toString prints:
\* its own below 2^53
PrintedInteger(digits) ==
    With(BitLength(digits), LAMBDA b :
        IF b > 63 THEN [kind |-> "large", digits |-> <<>>]
        ELSE IF b <= 53 THEN [kind |-> "integer", digits |-> digits]
        ELSE [kind |-> "integer", digits |-> ShortestDigits(digits, b - 53)])

\* the double next to whole + 0.frac, for whole from 2^52 on, or without
\* a fraction: of b binary digits, it keeps the first 53 and rounds on
\* the s = b - 53 after them and the fraction, a tie to the even
\* significand
RoundedBig(whole, frac) ==
    With(BitLength(whole), LAMBDA b :
        IF b > 63 THEN [kind |-> "large", digits |-> <<>>]
        ELSE
    With(IF b > 53 THEN b - 53 ELSE 0, LAMBDA s :
    With(Remainder(whole, Len(whole), 2 ^ (s + 1)), LAMBDA r2 :
    With(r2 % (2 ^ s), LAMBDA r :
    With(IF s = 0
         THEN /\ frac # <<>>
              /\ \/ ~FractionLeq(frac, <<"5">>)
                 \/ frac = <<"5">> /\ r2 = 1
         ELSE \/ r > 2 ^ (s - 1)
              \/ r = 2 ^ (s - 1) /\ (frac # <<>> \/ r2 >= 2 ^ s), LAMBDA up :
    With(Sub(whole, DigitsOfNat(r)), LAMBDA down :
    With(IF up THEN Add(down, DigitsOfNat(2 ^ s)) ELSE down, LAMBDA double :
        PrintedInteger(double))))))))

\* the double next to d2 * 10^shift, for digits d2 that neither start
\* nor end in 0, by kind: zero, an integer below 2^63 (with the digits
\* toString prints), an integer from 2^63 on ("large"), a number with a
\* fraction, or Infinity
ScaledNumber(d2, shift) ==
    With(Len(d2) + shift, LAMBDA integerDigits :
        IF integerDigits > 309 THEN [kind |-> "Infinity", digits |-> <<>>]
        ELSE IF integerDigits = 309
        THEN With(SubSeq(d2 \o Zeros(309), 1, 309), LAMBDA whole :
             With(StripLeadingZeros(ShiftRight(whole, 970)), LAMBDA quotient :
                 IF NumberLeq(InfinityQuotient, quotient)
                 THEN [kind |-> "Infinity", digits |-> <<>>]
                 ELSE [kind |-> "large", digits |-> <<>>]))
        \* 10^19 lies beyond 2^63
        ELSE IF integerDigits > 19 THEN [kind |-> "large", digits |-> <<>>]
        ELSE IF integerDigits < 0 - 323 THEN [kind |-> "zero", digits |-> <<>>]
        ELSE IF integerDigits = 0 - 323
        \* against 2^-1075, half the least double, past its 323 zeros
        THEN With(SubSeq(HalfPowerDigits(1075), 324, 1075), LAMBDA least :
                 IF FractionLeq(d2, least)
                 THEN [kind |-> "zero", digits |-> <<>>]
                 ELSE [kind |-> "fraction", digits |-> <<>>])
        ELSE IF shift >= 0 THEN RoundedBig(d2 \o Zeros(shift), <<>>)
        ELSE IF integerDigits < 0 THEN [kind |-> "fraction", digits |-> <<>>]
        ELSE With(SubSeq(d2, 1, integerDigits), LAMBDA whole :
             With(SubSeq(d2, integerDigits + 1, Len(d2)), LAMBDA frac :
                 IF NumberLeq(whole, LastFraction)
                 THEN RoundedNear(whole, frac)
                 ELSE RoundedBig(whole, frac))))

\* the double an unsigned decimal literal denotes, by kind
DecimalNumber(text) ==
    With(DecimalParts(text), LAMBDA p :
        IF ~p.ok THEN [kind |-> "NaN", digits |-> <<>>]
        ELSE
    With(StripLeadingZeros(p.digits), LAMBDA d1 :
        IF d1 = <<>> THEN [kind |-> "zero", digits |-> <<>>]
        \* an exponent from 10^9 on outweighs the digits of a literal, which
        \* a body within the limit of 1mb (server.js line 10) holds
        ELSE IF Len(p.expDigits) > 9
        THEN [kind |-> IF p.expNeg THEN "zero" ELSE "Infinity", digits |-> <<>>]
        ELSE
    With(DigitsValue(p.expDigits), LAMBDA exp :
    With(StripTrailingZeros(d1), LAMBDA d2 :
    With((IF p.expNeg THEN 0 - exp ELSE exp) - p.fracLen + (Len(d1) - Len(d2)), LAMBDA shift :
        ScaledNumber(d2, shift))))))

RadixDigits(prefix) ==
    IF prefix \in {"x", "X"}
    THEN DigitChars \cup {"a","b","c","d","e","f","A","B","C","D","E","F"}
    ELSE IF prefix \in {"o", "O"} THEN {"0","1","2","3","4","5","6","7"}
    ELSE IF prefix \in {"b", "B"} THEN {"0", "1"}
    ELSE {}

\* 0x, 0o, 0b literals (they take no sign)
IsRadixLiteral(text) ==
    /\ Len(text) > 2 /\ text[1] = "0"
    /\ \A i \in 3..Len(text) : text[i] \in RadixDigits(text[2])

RadixDigitValue(c) ==
    IF c \in DigitChars THEN DigitOf(c)
    ELSE 9 + (CHOOSE i \in 1..6 : c \in {LowerLetters[i], UpperLetters[i]})

BitsPerDigit(prefix) ==
    IF prefix \in {"x", "X"} THEN 4 ELSE IF prefix \in {"o", "O"} THEN 3 ELSE 1

DigitBits(v, width) ==
    Tuple([i \in 1..width |-> IF (v \div (2 ^ (width - i))) % 2 = 1 THEN "1" ELSE "0"])

\* the binary digits of the digits of a radix literal
AllBits(digits, width) ==
    Tuple([i \in 1..(Len(digits) * width) |->
        DigitBits(RadixDigitValue(digits[((i - 1) \div width) + 1]), width)[((i - 1) % width) + 1]])

\* the binary digits of a radix literal, without leading zeros
RadixBits(text) ==
    With(AllBits(SubSeq(text, 3, Len(text)), BitsPerDigit(text[2])), LAMBDA bits :
        StripLeadingZeros(bits))

\* the number of the binary digits becomes Infinity from 2^1024 - 2^970 on:
\* more than 1024 digits, or 1024 that start with 54 ones
BitsOverflow(bits) ==
    \/ Len(bits) > 1024
    \/ Len(bits) = 1024 /\ \A i \in 1..54 : bits[i] = "1"

\* Number(text), by kind: the sign, and for an integer below 2^63 in
\* magnitude the digits toString prints
NumberOfText(text) ==
    With(TrimLeft(text), LAMBDA left :
    With(TrimRight(left), LAMBDA t :
    With(t # <<>> /\ Head(t) \in {"+", "-"}, LAMBDA signed :
    With(IF signed THEN Tail(t) ELSE t, LAMBDA body :
        IF t = <<>> THEN [kind |-> "zero", neg |-> FALSE, digits |-> <<>>]
        ELSE IF body = <<"I","n","f","i","n","i","t","y">>
        THEN [kind |-> "Infinity", neg |-> Head(t) = "-", digits |-> <<>>]
        ELSE IF ~signed /\ IsRadixLiteral(t)
        THEN With(RadixBits(t), LAMBDA bits :
                 IF bits = <<>>
                 THEN [kind |-> "zero", neg |-> FALSE, digits |-> <<>>]
                 ELSE IF BitsOverflow(bits)
                 THEN [kind |-> "Infinity", neg |-> FALSE, digits |-> <<>>]
                 ELSE IF Len(bits) > 63
                 THEN [kind |-> "large", neg |-> FALSE, digits |-> <<>>]
                 ELSE With(BitsToDigits(bits), LAMBDA whole :
                      With(RoundedBig(whole, <<>>), LAMBDA d :
                          [kind |-> d.kind, neg |-> FALSE, digits |-> d.digits])))
        ELSE With(DecimalNumber(body), LAMBDA d :
                 [kind |-> d.kind, neg |-> Head(t) = "-", digits |-> d.digits])))))

\* Number(text) as a value
StringToNumber(text) ==
    With(NumberOfText(text), LAMBDA n :
        IF n.kind = "zero" THEN Zero
        ELSE IF n.kind = "integer" THEN Integer(n.neg, n.digits)
        ELSE [kind |-> n.kind, neg |-> n.kind # "NaN" /\ n.neg, digits |-> <<>>])

\* payload.amount || 0: the operand Number() is given, as a JSON value
amountOrZero(payload) ==
    IF "amount" \notin DOMAIN payload THEN JsonNumber(<<"0">>)
    ELSE IF payload.amount[1] = "NULL" THEN JsonNumber(<<"0">>)
    ELSE IF payload.amount[1] = "string" /\ payload.amount[2] = EmptyStr
    THEN JsonNumber(<<"0">>)
    ELSE IF payload.amount[1] = "number" /\ StringToNumber(payload.amount[2]) = Zero
    THEN JsonNumber(<<"0">>)
    ELSE payload.amount

\* Number(payload.amount || 0): JSON.parse reads the numeral of a JSON
\* number as Number() reads a text
amountOf(payload) == StringToNumber(amountOrZero(payload)[2])

amountIsNaN(payload) == amountOf(payload) = NaN

\* whether an int8 column takes the text of a number (total_rp is
\* expected to be int8, part_000 line 86): only that of an integer within
\* its range
Int8Takes(value) == value.kind = "integer"

\* a + b for integers
Plus(a, b) ==
    IF a.neg = b.neg THEN Integer(a.neg, Add(a.digits, b.digits))
    ELSE IF NumberLeq(b.digits, a.digits)
    THEN Integer(a.neg, Sub(a.digits, b.digits))
    ELSE Integer(b.neg, Sub(b.digits, a.digits))

\* whether an integer lies within the range of int8
InInt8(a) ==
    \/ NumberLeq(a.digits, Int8Max)
    \/ a.neg /\ a.digits = Int8MinMagnitude

lastMsg(payload) == OrElse(Field(payload, "message"), Null)

atUsername(payload) == extractAtUsername(lastMsg(payload))

\* a key that prefers the identifier the payload provides
donorKeyPrefersPayload(payload) ==
    OrElse(Field(payload, "donor_key"),
           IF Truthy(atUsername(payload))
           THEN S_user \o atUsername(payload)
           ELSE S_bagibagi \o Render(payload, "transaction_id"))

donorKey(payload) ==
    IF Truthy(atUsername(payload))
    THEN S_user \o atUsername(payload)
    ELSE OrElse(Field(payload, "donor_key"),
                S_bagibagi \o Render(payload, "transaction_id"))

\* a date text that new Date() parses, denoting the instant t
IsoText(t) == <<"iso", t>>

\* new Date(text) is a valid date
DateParses(text) == Len(text) = 2 /\ text[1] = "iso"

\* new Date(payload.created_at).toISOString() throws RangeError on a text
\* that is no date
lastTimeThrows(payload) ==
    /\ "created_at" \in DOMAIN payload
    /\ Truthy(payload.created_at)
    /\ ~DateParses(payload.created_at)

\* created_at as given, else the time of receipt (instants; the ISO text is
\* a rendering of the instant)
lastTime(payload, clock) ==
    IF "created_at" \in DOMAIN payload /\ Truthy(payload.created_at)
    THEN payload.created_at[2]
    ELSE clock

---------------------------------------------------------------------------
(* Inputs: the bodies senders post, how they serialise and sign them *)

S_carol == <<"c","a","r","o","l">>
S_Carol == <<"C","a","r","o","l">>
S_Bob == <<"B","o","b">>
S_Bob2 == <<"B","o","b","2">>
S_Eve == <<"E","v","e">>
S_t1 == <<"t","1">>
S_t2 == <<"t","2">>
S_hi == <<"h","i">>
S_CarolD == <<"C","a","r","o","l"," ","D">>
S_Caz == <<"C","a","z">>

\* "thanks @carol!"
MsgThanks == <<"t","h","a","n","k","s"," ","@","c","a","r","o","l","!">>

\* "@Carol again"
MsgAgain == <<"@","C","a","r","o","l"," ","a","g","a","i","n">>

BodyBob == [name |-> S_Bob, amount |-> JsonNumber(<<"1","0","0">>), message |-> MsgThanks]

\* a handle in the message and a donor_key of the payload's own
BodyBob2 ==
    [name |-> S_Bob2, amount |-> JsonNumber(<<"5","0">>), message |-> MsgAgain,
     created_at |-> IsoText(9), donor_key |-> S_user \o S_carol]

\* no name, no message: the key comes from the payload's donor_key
BodyKeyed == [donor_key |-> S_user \o S_carol, amount |-> JsonNumber(<<"-","3","0">>)]

\* no amount, no handle, no donor_key
BodyEve == [name |-> S_Eve, transaction_id |-> S_t1, message |-> S_hi]

S_soon == <<"s","o","o","n">>

\* a created_at that is no date
BodyBadDate == [name |-> S_Eve, amount |-> JsonNumber(<<"5">>), created_at |-> S_soon]

\* the same donor again, in another transaction
\* the amount as a text, "3000000000"
BodyEveAgain ==
    [name |-> S_Eve, transaction_id |-> S_t2,
     amount |-> JsonString(<<"3","0","0","0","0","0","0","0","0","0">>)]

S_abc == <<"a","b","c">>

\* an amount that is no number
BodyNoNumber == [name |-> S_Eve, amount |-> JsonString(S_abc)]

Bodies ==
    {BodyBob, BodyBob2, BodyKeyed, BodyEve, BodyBadDate, BodyEveAgain, BodyNoNumber}

\* the sender's serialisations of a body: the one JSON.stringify produces,
\* and another one (other key order or whitespace)
\* what JSON.stringify makes of a body
Compact(b) == <<"compact", b>>

\* another serialisation of the same body
Spaced(b) == <<"spaced", b>>

\* express.json(): the parsed body
JSONparse(bytes) == bytes[2]

\* JSON.stringify(body)
JSONstringify(body) == Compact(body)

\* createHmac("sha256", key).update(text).digest("hex"), collision free
HmacSha256Hex(key, text) == <<"hmac-sha256", key, text>>

Secret == <<"s","3","c","r","e","t">>
OtherKey == <<"g","u","e","s","s">>

\* the requests posted to the webhook: every body as JSON.stringify writes
\* it with the sender's signature of those bytes; a body serialised
\* otherwise with the sender's signature of those bytes; a request without
\* signature header; a request signed under another key
HttpRequests ==
    {[bytes |-> Compact(b), sig |-> HmacSha256Hex(Secret, Compact(b))] : b \in Bodies}
    \cup {[bytes |-> Spaced(BodyEve), sig |-> HmacSha256Hex(Secret, Spaced(BodyEve))],
          [bytes |-> Compact(BodyEve), sig |-> EmptyStr],
          [bytes |-> Compact(BodyKeyed),
           sig |-> HmacSha256Hex(OtherKey, Compact(BodyKeyed))]}

---------------------------------------------------------------------------
(* Signature verification *)

\* a verifier that accepts whatever it is given
verifyAnything(bodyString, signatureHex) == TRUE

verifyBagibagiSignature(bodyString, signatureHex) ==
    IF ~Truthy(BAGIBAGI_TOKEN) THEN FALSE
    ELSE HmacSha256Hex(BAGIBAGI_TOKEN, bodyString) = signatureHex

\* lines 213-222: the request passes the signature gate
SignatureGate(body, sig) ==
    IF Truthy(BAGIBAGI_TOKEN)
    THEN verifyBagibagiSignature(JSONstringify(body), sig)
    ELSE TRUE

---------------------------------------------------------------------------
(* The donations table and its upsert statement *)

\* a merge that lets a null candidate through
CoalesceTakesCandidate(a, b) == a

\* SQL COALESCE(a, b)
COALESCE(a, b) == IF a # Null THEN a ELSE b

\* a lost accumulation: the conflicting row takes the proposed total
TotalOverwritten(old, excluded) == excluded.total_rp

\* total_rp = donations.total_rp + EXCLUDED.last_donation_rp
TotalOnConflict(old, excluded) == Plus(old.total_rp, excluded.last_donation_rp)

\* VALUES ($1, ..., $8): the row proposed for insertion
ExcludedRow(key, username, displayName, label, amount, msg, time) ==
    [donor_key |-> key,
     roblox_username |-> username,
     roblox_display_name |-> displayName,
     bagibagi_name |-> label,
     total_rp |-> amount,
     last_donation_rp |-> amount,
     last_message |-> msg,
     last_time |-> time]

\* ON CONFLICT (donor_key) DO UPDATE SET ...
ConflictUpdate(old, excluded) ==
    [donor_key |-> old.donor_key,
     roblox_username |-> COALESCE(excluded.roblox_username, old.roblox_username),
     roblox_display_name |->
         COALESCE(excluded.roblox_display_name, old.roblox_display_name),
     bagibagi_name |-> COALESCE(excluded.bagibagi_name, old.bagibagi_name),
     total_rp |-> TotalOnConflict(old, excluded),
     last_donation_rp |-> excluded.last_donation_rp,
     last_message |-> excluded.last_message,
     last_time |-> excluded.last_time]

\* RETURNING *: the row as the statement leaves it
UpsertedRow(table, excluded) ==
    IF excluded.donor_key \in DOMAIN table
    THEN ConflictUpdate(table[excluded.donor_key], excluded)
    ELSE excluded

\* a statement that rewrites the table to the one row it touched
UpsertedTableOnlyRow(table, excluded) ==
    [k \in {excluded.donor_key} |-> UpsertedRow(table, excluded)]

\* the table after the statement
UpsertedTable(table, excluded) ==
    [k \in DOMAIN table \cup {excluded.donor_key} |->
        IF k = excluded.donor_key THEN UpsertedRow(table, excluded) ELSE table[k]]

\* whether the database executes the statement: the int8 columns take the
\* amount as it is sent, and the total stays within their range
UpsertFits(table, excluded) ==
    /\ Int8Takes(excluded.last_donation_rp)
    /\ InInt8(UpsertedRow(table, excluded).total_rp)

NoRows == [k \in {} |-> Null]

\* SELECT roblox_username, roblox_display_name ... WHERE donor_key = $1,
\* cached stays null when the query throws or finds no row
NoCached == [found |-> FALSE, roblox_username |-> Null, roblox_display_name |-> Null]

SelectCached(table, key, dbOk) ==
    IF dbOk /\ key \in DOMAIN table
    THEN [found |-> TRUE,
          roblox_username |-> table[key].roblox_username,
          roblox_display_name |-> table[key].roblox_display_name]
    ELSE NoCached

\* line 108: the cached row answers for this handle
CacheHit(cached, username) ==
    /\ cached.found
    /\ cached.roblox_username = username
    /\ Truthy(cached.roblox_display_name)

---------------------------------------------------------------------------
(* The remote identity service *)

\* what axios.post to the users endpoint may produce: a throw (timeout,
\* error status), an empty data array, a user with or without display name
\* (the display name of an account may change between two calls)
LookupResponses(username) ==
    {[ok |-> FALSE, data |-> <<>>],
     [ok |-> TRUE, data |-> <<>>],
     [ok |-> TRUE, data |-> <<[id |-> 1, name |-> username, displayName |-> S_CarolD]>>],
     [ok |-> TRUE, data |-> <<[id |-> 1, name |-> username, displayName |-> S_Caz]>>],
     [ok |-> TRUE, data |-> <<[id |-> 1, name |-> username, displayName |-> EmptyStr]>>]}

NoInfo == [found |-> FALSE, id |-> 0, name |-> Null, displayName |-> Null]

lookupRobloxUsername(username, response) ==
    IF ~Truthy(username) THEN NoInfo
    ELSE IF response.ok /\ Len(response.data) > 0
    THEN [found |-> TRUE,
          id |-> response.data[1].id,
          name |-> response.data[1].name,
          displayName |-> response.data[1].displayName]
    ELSE NoInfo

\* lines 112-117
DisplayNameFromInfo(info) ==
    IF info.found THEN OrElse(info.displayName, Null) ELSE Null

---------------------------------------------------------------------------
(* The webhook handler, one operator per stretch between two awaits *)

NoBody == [f \in {} |-> Null]

NoStored == <<>>

S_hook == <<"h","o","o","k">>

\* a request: the handler's position and its locals (body, sig, the
\* constants of upsertDonation lines 80-90, robloxDisplayNameToStore as
\* dname), the calls it made and the answer it gave
IdleReq ==
    [pc |-> "idle", bytes |-> EmptyStr, body |-> NoBody, sig |-> EmptyStr,
     bagibagiName |-> Null, amount |-> Zero, lastMsg |-> Null, lastTime |-> 0,
     atUsername |-> Null, donorKey |-> Null,
     dname |-> Null, lookups |-> 0, upsert |-> "none",
     stored |-> NoStored, notify |-> "none", status |-> 0]

\* lines 207-226 and 77-95: parse, check the signature, answer 401 or enter
\* upsertDonation and issue the cache SELECT; a throw at line 83 is caught
\* at lines 241-244 and answered 500
Received(rq, body, sig, clock) ==
    IF SignatureGate(body, sig) /\ lastTimeThrows(body)
    THEN [rq EXCEPT !.pc = "done", !.body = body, !.sig = sig, !.status = 500]
    ELSE IF SignatureGate(body, sig)
    THEN [rq EXCEPT !.pc = "select", !.body = body, !.sig = sig,
                    !.bagibagiName = bagibagiName(body),
                    !.amount = amountOf(body),
                    !.lastMsg = lastMsg(body),
                    !.lastTime = lastTime(body, clock),
                    !.atUsername = atUsername(body),
                    !.donorKey = donorKey(body)]
    ELSE [rq EXCEPT !.pc = "done", !.body = body, !.sig = sig, !.status = 401]

\* lines 96-123, up to the next await
AfterSelect(rq, cached) ==
    IF Truthy(rq.atUsername)
    THEN IF CacheHit(cached, rq.atUsername)
         THEN [rq EXCEPT !.pc = "upsert", !.dname = cached.roblox_display_name]
         ELSE [rq EXCEPT !.pc = "lookup", !.lookups = rq.lookups + 1]
    ELSE [rq EXCEPT !.pc = "upsert", !.dname = Null]

\* a handler that gives the event up when the lookup yields no profile
AfterLookupFatal(rq, response) ==
    IF lookupRobloxUsername(rq.atUsername, response).found
    THEN [rq EXCEPT !.pc = "upsert",
                    !.dname = DisplayNameFromInfo(
                                  lookupRobloxUsername(rq.atUsername, response))]
    ELSE [rq EXCEPT !.pc = "done", !.status = 500]

\* lines 111-118 and 126-153: the lookup came back, issue the upsert
AfterLookup(rq, response) ==
    [rq EXCEPT !.pc = "upsert",
               !.dname = DisplayNameFromInfo(
                             lookupRobloxUsername(rq.atUsername, response))]

\* lines 142-151: params
UpsertParams(rq) ==
    ExcludedRow(rq.donorKey, rq.atUsername, rq.dname,
                rq.bagibagiName, rq.amount, rq.lastMsg, rq.lastTime)

\* lines 154, 226-240: the upsert returned a row; notify when configured,
\* else answer 200
AfterUpsertOk(rq, row) ==
    IF Truthy(DISCORD_WEBHOOK_URL)
    THEN [rq EXCEPT !.pc = "notify", !.upsert = "ok", !.stored = row]
    ELSE [rq EXCEPT !.pc = "done", !.upsert = "ok", !.stored = row, !.status = 200]

\* a handler that swallows the store error and carries on as if stored
AfterUpsertErrorSwallowed(rq) ==
    IF Truthy(DISCORD_WEBHOOK_URL)
    THEN [rq EXCEPT !.pc = "notify", !.upsert = "failed"]
    ELSE [rq EXCEPT !.pc = "done", !.upsert = "failed", !.status = 200]

\* lines 155-158, 241-244: the upsert threw; answer 500
AfterUpsertError(rq) ==
    [rq EXCEPT !.pc = "done", !.upsert = "failed", !.status = 500]

\* a handler whose notification error reaches the outer catch
AfterNotifyPropagates(rq, delivered) ==
    [rq EXCEPT !.pc = "done", !.notify = IF delivered THEN "sent" ELSE "failed",
               !.status = IF delivered THEN 200 ELSE 500]

\* lines 230-240: the notification call returned or threw; answer 200
AfterNotify(rq, delivered) ==
    [rq EXCEPT !.pc = "done", !.notify = IF delivered THEN "sent" ELSE "failed",
               !.status = 200]

\* the routes the application registers
Routes ==
    {<<"GET", "/">>, <<"GET", "/leaderboard/top">>,
     <<"GET", "/roblox/get-player-total/:username">>,
     <<"POST", "/bagibagi-webhook">>, <<"GET", "/ping">>}

\* the answer to GET /poll in any state: no such route is registered and no
\* handler holds a queue, so the framework answers 404 and hands out nothing
GetPoll ==
    IF <<"GET", "/poll">> \in Routes
    THEN [status |-> 200, isArray |-> TRUE, items |-> <<>>]
    ELSE [status |-> 404, isArray |-> FALSE, items |-> <<>>]

\* GET /roblox/get-player-total/:username: the request, the handler's
\* position (q: the first SELECT is awaited, q2: the fallback SELECT is
\* awaited) and its answer
NoTotalReq == [pc |-> "idle", username |-> Null, status |-> 0, total_rp |-> Zero]

\* SELECT total_rp ... WHERE roblox_username = $1 LIMIT 1: the values
\* rows[0].total_rp may have (no ORDER BY: any matching row), none when no
\* row matches
SelectTotalByUsername(table, username) ==
    {table[k].total_rp : k \in {j \in DOMAIN table : table[j].roblox_username = username}}

\* SELECT total_rp ... WHERE donor_key = $1 LIMIT 1
SelectTotalByKey(table, key) ==
    IF key \in DOMAIN table THEN {table[key].total_rp} ELSE {}

\* line 188: the handler starts and issues the first SELECT
TotalRequested(username) ==
    [NoTotalReq EXCEPT !.pc = "q", !.username = username]

\* res.json({ username, total_rp })
TotalAnswered(t, total) ==
    [t EXCEPT !.pc = "done", !.status = 200, !.total_rp = total]

\* lines 200-203: a SELECT threw
TotalFailed(t) == [t EXCEPT !.pc = "done", !.status = 500]

\* lines 193-197: no row by username, the fallback SELECT is issued with
\* the key user:<username as given>
TotalFallsBack(t) == [t EXCEPT !.pc = "q2"]

\* usernames asked for
QueryNames == {S_carol, S_Carol, S_Eve}

---------------------------------------------------------------------------
(* Behaviour *)

Init ==
    /\ BAGIBAGI_TOKEN \in {EmptyStr, Secret}
    /\ DISCORD_WEBHOOK_URL \in {Null, S_hook}
    /\ now = 1
    /\ donations = NoRows
    /\ req = [r \in Reqs |-> IdleReq]
    /\ totalReq = NoTotalReq

\* a POST /bagibagi-webhook arrives (requests are numbered by arrival)
Receive(r) ==
    /\ req[r].pc = "idle"
    /\ \A q \in Reqs : q < r => req[q].pc # "idle"
    /\ \E h \in HttpRequests :
         req' = [req EXCEPT ![r] =
                    [Received(req[r], JSONparse(h.bytes), h.sig, now)
                        EXCEPT !.bytes = h.bytes]]
    /\ now' = now + 1
    /\ UNCHANGED <<totalReq, BAGIBAGI_TOKEN, DISCORD_WEBHOOK_URL, donations>>

\* the cache SELECT is answered by the database (or fails)
Select(r) ==
    /\ req[r].pc = "select"
    /\ \E dbOk \in BOOLEAN :
         req' = [req EXCEPT ![r] =
                    AfterSelect(req[r],
                                SelectCached(donations, req[r].donorKey, dbOk))]
    /\ UNCHANGED <<totalReq, BAGIBAGI_TOKEN, DISCORD_WEBHOOK_URL, now, donations>>

\* the identity service answers (or the call fails)
Lookup(r) ==
    /\ req[r].pc = "lookup"
    /\ \E response \in LookupResponses(req[r].atUsername) :
         req' = [req EXCEPT ![r] = AfterLookup(req[r], response)]
    /\ UNCHANGED <<totalReq, BAGIBAGI_TOKEN, DISCORD_WEBHOOK_URL, now, donations>>

\* the database executes the upsert statement atomically (or fails; it
\* fails on an amount or a total the int8 columns do not take)
Upsert(r) ==
    /\ req[r].pc = "upsert"
    /\ \E dbOk \in IF UpsertFits(donations, UpsertParams(req[r]))
                   THEN BOOLEAN ELSE {FALSE} :
         IF dbOk
         THEN /\ donations' = UpsertedTable(donations, UpsertParams(req[r]))
              /\ req' = [req EXCEPT ![r] =
                            AfterUpsertOk(req[r],
                                          UpsertedRow(donations, UpsertParams(req[r])))]
         ELSE /\ donations' = donations
              /\ req' = [req EXCEPT ![r] = AfterUpsertError(req[r])]
    /\ UNCHANGED <<totalReq, BAGIBAGI_TOKEN, DISCORD_WEBHOOK_URL, now>>

\* the notification call completes (or fails)
Notify(r) ==
    /\ req[r].pc = "notify"
    /\ \E delivered \in BOOLEAN :
         req' = [req EXCEPT ![r] = AfterNotify(req[r], delivered)]
    /\ UNCHANGED <<totalReq, BAGIBAGI_TOKEN, DISCORD_WEBHOOK_URL, now, donations>>

Next ==
    \/ \E r \in Reqs : Receive(r)
    \/ \E r \in Reqs : Select(r)
    \/ \E r \in Reqs : Lookup(r)
    \/ \E r \in Reqs : Upsert(r)
    \/ \E r \in Reqs : Notify(r)

Spec == Init /\ [][Next]_vars

\* a GET /roblox/get-player-total/:username arrives
GetPlayerTotal ==
    /\ totalReq.pc = "idle"
    /\ \E username \in QueryNames : totalReq' = TotalRequested(username)
    /\ UNCHANGED <<BAGIBAGI_TOKEN, DISCORD_WEBHOOK_URL, now, donations, req>>

\* the database answers the SELECT by roblox_username (or fails)
PlayerTotalQ ==
    /\ totalReq.pc = "q"
    /\ \E dbOk \in BOOLEAN :
         IF ~dbOk THEN totalReq' = TotalFailed(totalReq)
         ELSE IF SelectTotalByUsername(donations, totalReq.username) = {}
         THEN totalReq' = TotalFallsBack(totalReq)
         ELSE \E total \in SelectTotalByUsername(donations, totalReq.username) :
                  totalReq' = TotalAnswered(totalReq, total)
    /\ UNCHANGED <<BAGIBAGI_TOKEN, DISCORD_WEBHOOK_URL, now, donations, req>>

\* the database answers the SELECT by donor_key (or fails)
PlayerTotalQ2 ==
    /\ totalReq.pc = "q2"
    /\ \E dbOk \in BOOLEAN :
         IF ~dbOk THEN totalReq' = TotalFailed(totalReq)
         ELSE IF SelectTotalByKey(donations, S_user \o totalReq.username) = {}
         THEN totalReq' = TotalAnswered(totalReq, Zero)
         ELSE \E total \in SelectTotalByKey(donations, S_user \o totalReq.username) :
                  totalReq' = TotalAnswered(totalReq, total)
    /\ UNCHANGED <<BAGIBAGI_TOKEN, DISCORD_WEBHOOK_URL, now, donations, req>>

\* the webhook together with the total route.  The total handler only
\* reads donations and writes only totalReq, which no webhook step reads:
\* what holds of the webhook under Spec holds under TotalSpec as well.
NextWithTotals ==
    \/ Next
    \/ GetPlayerTotal
    \/ PlayerTotalQ
    \/ PlayerTotalQ2

TotalSpec == Init /\ [][NextWithTotals]_vars

\* what the code's scheduling guarantees: a store statement returns (the pool
\* answers or errors, lines 29-36) and the identity lookup returns or times
\* out after 5000 ms (line 64), so a handler waiting on either goes on.  The
\* notification call (line 231) carries no timeout and may never complete,
\* and nothing obliges a sender to send: no fairness for Notify and Receive.
Fairness ==
    \A r \in Reqs :
        /\ WF_vars(Select(r))
        /\ WF_vars(Lookup(r))
        /\ WF_vars(Upsert(r))

LiveSpec == Init /\ [][Next]_vars /\ Fairness

---------------------------------------------------------------------------
(* Properties *)

\* a <= b for integers
Leq(a, b) ==
    IF a.neg # b.neg THEN a.neg
    ELSE IF a.neg THEN NumberLeq(b.digits, a.digits)
    ELSE NumberLeq(a.digits, b.digits)

Positive(a) == a.kind = "integer" /\ ~a.neg /\ a.digits # <<>>

\* requests that have arrived
Arrived == {r \in Reqs : req[r].pc # "idle"}

\* requests whose upsert statement was executed, per donor key
Credited(k) ==
    {r \in Reqs : req[r].upsert = "ok" /\ req[r].donorKey = k}

RECURSIVE SumAmounts(_)
SumAmounts(S) ==
    IF S = {} THEN Zero
    ELSE LET r == CHOOSE x \in S : TRUE
         IN  Plus(req[r].amount, SumAmounts(S \ {r}))

KeysSeen == (DOMAIN donations \cup {req[r].donorKey : r \in Arrived}) \ {Null}

\* every row's total is the sum of the amounts credited to its key, and a
\* key has a row exactly when something was credited to it
TotalsAccounted ==
    \A k \in KeysSeen :
        IF Credited(k) = {}
        THEN k \notin DOMAIN donations
        ELSE /\ k \in DOMAIN donations
             /\ donations[k].total_rp = SumAmounts(Credited(k))

\* C1: under every interleaving of concurrently processed webhook events,
\* the stored total_rp of each donor key equals the sum of the amounts of
\* the events for that key whose upsert succeeded (the first inserts its
\* amount, each later one adds its amount); in particular once all events
\* have finished.  No update is lost.
C1_NoLostUpdate ==
    /\ TotalsAccounted
    /\ \A k \in DOMAIN donations : donations[k].donor_key = k

\* C1 witness: two events for one donor key were in flight together (the
\* later arrival was upserted first) and both are in the total
C1_Witness ==
    \E a, b \in Reqs :
        /\ a < b
        /\ req[a].upsert = "ok" /\ req[b].upsert = "ok"
        /\ req[a].pc = "done" /\ req[b].pc = "done"
        /\ req[a].donorKey = req[b].donorKey
        /\ Positive(req[a].amount) /\ Positive(req[b].amount)
        /\ req[b].stored.total_rp = req[b].amount
        /\ req[a].stored.total_rp = Plus(req[a].amount, req[b].amount)

\* the digest the server computes for a request
ExpectedDigest(r) == HmacSha256Hex(BAGIBAGI_TOKEN, JSONstringify(req[r].body))

BadSignature(r) == req[r].sig = EmptyStr \/ req[r].sig # ExpectedDigest(r)

\* C2: with a secret configured, a webhook POST whose signature header is
\* missing or differs from the expected digest is answered 401 and changes
\* nothing: no cache read, no identity lookup, no upsert (every row is
\* accounted for by the other requests), no notification.
C2_BadSignatureRejected ==
    Truthy(BAGIBAGI_TOKEN) =>
        /\ \A r \in Arrived :
              BadSignature(r) =>
                 /\ req[r].status = 401 /\ req[r].pc = "done"
                 /\ req[r].upsert = "none" /\ req[r].stored = NoStored
                 /\ req[r].lookups = 0 /\ req[r].donorKey = Null
                 /\ req[r].notify = "none"
        /\ \A k \in KeysSeen :
              {r \in Credited(k) : BadSignature(r)} = {}
        /\ TotalsAccounted

\* C2 witness: a request without signature header and a request signed
\* under another key were both answered 401 and the table is still empty
C2_Witness ==
    /\ Truthy(BAGIBAGI_TOKEN)
    /\ donations = NoRows
    /\ \E a, b \in Reqs :
        /\ req[a].pc = "done" /\ req[a].sig = EmptyStr /\ req[a].status = 401
        /\ req[b].pc = "done" /\ req[b].sig # EmptyStr /\ BadSignature(b)
        /\ req[b].status = 401

\* C3: when the secret is not configured the webhook rejects every inbound
\* event: nothing is persisted, nothing is notified, every answer is 401.
C3_RejectAllWithoutSecret ==
    ~Truthy(BAGIBAGI_TOKEN) =>
        /\ donations = NoRows
        /\ \A r \in Arrived :
              /\ req[r].upsert # "ok"
              /\ req[r].notify # "sent"
              /\ req[r].pc = "done" => req[r].status = 401

ToLowerChar(c) ==
    IF \E i \in 1..26 : UpperLetters[i] = c
    THEN LowerLetters[CHOOSE i \in 1..26 : UpperLetters[i] = c]
    ELSE c

ToLower(str) == [i \in 1..Len(str) |-> ToLowerChar(str[i])]

HasHandle(r) == Truthy(req[r].atUsername)

\* C4: the same handle yields the same donor key regardless of casing: an
\* event mentioning a handle is stored under user:<lowercased handle>, so
\* two events whose handles differ only in case share one row (stated for
\* a server with its secret configured, where only signed events pass).
C4_KeyIgnoresCase ==
    Truthy(BAGIBAGI_TOKEN) =>
    /\ \A r \in Arrived :
          (HasHandle(r) /\ req[r].upsert = "ok") =>
              req[r].stored.donor_key = S_user \o ToLower(atUsername(req[r].body))
    /\ \A a, b \in Arrived :
          (/\ HasHandle(a) /\ HasHandle(b)
           /\ req[a].upsert = "ok" /\ req[b].upsert = "ok"
           /\ ToLower(atUsername(req[a].body)) = ToLower(atUsername(req[b].body)))
          => req[a].stored.donor_key = req[b].stored.donor_key

\* the snapshot of an accepted event the polling client is to receive
Snapshot(body) ==
    [name |-> bagibagiName(body), amount |-> amountOf(body), message |-> lastMsg(body)]

Range(seq) == {seq[i] : i \in 1..Len(seq)}

\* C5: GET /poll drains the delivery queue: it answers 200 with the array
\* of buffered donations (then an empty array until the next webhook).
C5_PollDrainsQueue ==
    /\ GetPoll.status = 200
    /\ GetPoll.isArray
    /\ \A r \in Arrived :
          req[r].status # 200 => Snapshot(req[r].body) \notin Range(GetPoll.items)

\* C6: every accepted webhook event (answered 200) has put one snapshot of
\* itself into the delivery queue, where the next poll finds it; events
\* rejected or failed at the store have not (stated for a server with its
\* secret configured).
C6_AcceptedIsQueued ==
    Truthy(BAGIBAGI_TOKEN) =>
    \A r \in Arrived :
        /\ req[r].status = 200 => Snapshot(req[r].body) \in Range(GetPoll.items)
        /\ req[r].status \in {401, 500} =>
              Snapshot(req[r].body) \notin Range(GetPoll.items)

\* C7: if the upsert of an event fails the webhook answers 500 and the
\* event is abandoned: no notification is attempted, no row is returned,
\* no 200 is produced, and the failed event adds nothing to any total.
C7_StoreFailureAbandons ==
    /\ \A r \in Arrived :
          req[r].upsert = "failed" =>
             /\ req[r].pc = "done" /\ req[r].status = 500
             /\ req[r].notify = "none"
             /\ req[r].stored = NoStored
             /\ Snapshot(req[r].body) \notin Range(GetPoll.items)
    /\ TotalsAccounted

\* C7 witness: with a notification endpoint configured, an upsert failed
\* and the request was answered 500
C7_Witness ==
    /\ Truthy(DISCORD_WEBHOOK_URL)
    /\ \E r \in Reqs : req[r].upsert = "failed" /\ req[r].status = 500

\* C8: a failure of the outbound notification never fails the response
\* and never undoes persistence: the request is answered 200 and the row
\* of its donor key still holds its amount in the accumulated total.
C8_NotifyFailureSwallowed ==
    \A r \in Arrived :
        req[r].notify = "failed" =>
           /\ req[r].pc = "done" /\ req[r].status = 200
           /\ req[r].upsert = "ok"
           /\ req[r].donorKey \in DOMAIN donations
           /\ r \in Credited(req[r].donorKey)
           /\ donations[req[r].donorKey].total_rp
                 = SumAmounts(Credited(req[r].donorKey))

\* C8 witness: an event with a positive amount was stored, its
\* notification failed, and it was answered 200
C8_Witness ==
    \E r \in Reqs :
        /\ req[r].notify = "failed" /\ req[r].status = 200
        /\ Positive(req[r].amount)
        /\ Leq(req[r].amount, donations[req[r].donorKey].total_rp)

\* C9: the cumulative total of every row is non-negative and never
\* decreases, whatever amount an accepted event carries (stated for a
\* server with its secret configured, where only signed events pass).
C9_TotalNeverDecreases ==
    [][Truthy(BAGIBAGI_TOKEN) => \A k \in DOMAIN donations' :
          /\ Leq(Zero, donations'[k].total_rp)
          /\ k \in DOMAIN donations =>
                Leq(donations[k].total_rp, donations'[k].total_rp)]_vars

\* the merge of one field: a null candidate keeps the stored value
Merged(candidate, stored) == IF candidate = Null THEN stored ELSE candidate

\* the upsert step of request r on an existing row
C10_MergeStep(r) ==
    LET cand == UpsertParams(req[r])
        k == req[r].donorKey
    IN  (req[r].pc = "upsert" /\ req'[r].upsert = "ok" /\ k \in DOMAIN donations) =>
           /\ donations'[k].roblox_username
                 = Merged(req[r].atUsername, donations[k].roblox_username)
           /\ donations'[k].roblox_display_name
                 = Merged(req[r].dname, donations[k].roblox_display_name)
           /\ donations'[k].bagibagi_name
                 = Merged(req[r].bagibagiName, donations[k].bagibagi_name)
           /\ donations'[k].last_donation_rp = req[r].amount
           /\ donations'[k].last_message = req[r].lastMsg
           /\ donations'[k].last_time = req[r].lastTime
           /\ req'[r].stored = donations'[k]
           /\ cand.donor_key = k

\* C10: an upsert on an existing row keeps the stored username, display
\* name and label where its candidate is null and replaces them where the
\* candidate is non-null; last amount, message and time are overwritten
\* by every upsert.
C10_NonNullOverwriteMerge == [][\A r \in Reqs : C10_MergeStep(r)]_vars

\* C10 witness: a row holding a username, a display name and a label was
\* upserted by an event whose three candidates are null and still holds
\* them, while its last message was overwritten with null
C10_Witness ==
    \E a, b \in Reqs :
        /\ req[a].upsert = "ok" /\ req[b].upsert = "ok"
        /\ req[a].donorKey = req[b].donorKey
        /\ HasHandle(a) /\ Truthy(req[a].dname) /\ Truthy(req[a].bagibagiName)
        /\ ~HasHandle(b) /\ ~Truthy(req[b].bagibagiName)
        /\ req[a].stored.last_message # Null
        /\ req[b].stored.roblox_username = req[a].atUsername
        /\ req[b].stored.roblox_display_name = req[a].dname
        /\ req[b].stored.bagibagi_name = req[a].bagibagiName
        /\ req[b].stored.last_message = Null
        /\ req[b].stored.total_rp = Plus(req[a].amount, req[b].amount)

\* the display name lowercased, each run of blanks collapsed to one underscore
RECURSIVE CollapseBlanks(_)
CollapseBlanks(str) ==
    IF str = <<>> THEN <<>>
    ELSE IF Head(str) = " "
    THEN IF Len(str) > 1 /\ str[2] = " "
         THEN CollapseBlanks(Tail(str))
         ELSE <<"_">> \o CollapseBlanks(Tail(str))
    ELSE <<Head(str)>> \o CollapseBlanks(Tail(str))

NormalizeName(name) == CollapseBlanks(ToLower(name))

EndsWith(str, suffix) ==
    /\ Len(suffix) <= Len(str)
    /\ SubSeq(str, Len(str) - Len(suffix) + 1, Len(str)) = suffix

\* an event without handle, with a display name, that was stored
StoredHandleLess(r) ==
    /\ req[r].upsert = "ok"
    /\ ~HasHandle(r)
    /\ Truthy(req[r].bagibagiName)

\* C11: without a handle the donor key is derived from the display name
\* (lowercased, blanks collapsed to underscores): two handle-less events
\* share a donor key, and so a row, exactly when they carry the same display
\* name (stated for a server with its secret configured).
C11_KeyFromDisplayName ==
    Truthy(BAGIBAGI_TOKEN) =>
    /\ \A r \in Arrived :
          StoredHandleLess(r) =>
              EndsWith(req[r].stored.donor_key, NormalizeName(req[r].bagibagiName))
    /\ \A a, b \in Arrived :
          (StoredHandleLess(a) /\ StoredHandleLess(b)) =>
              ((req[a].bagibagiName = req[b].bagibagiName)
                  <=> (req[a].stored.donor_key = req[b].stored.donor_key))

\* the signature header is the sender's digest, under the configured secret,
\* of the bytes the request carried
SignedBySender(r) ==
    req[r].sig = HmacSha256Hex(BAGIBAGI_TOKEN, req[r].bytes)

\* C12: with a secret configured, a webhook request is accepted (not answered
\* 401) iff its signature is the HMAC-SHA256 digest, under that secret, of
\* the exact bytes the sender sent and signed, whatever serialization the
\* sender used.
C12_AcceptsExactlySignedBytes ==
    Truthy(BAGIBAGI_TOKEN) =>
        \A r \in Arrived :
            SignedBySender(r) <=> ~(req[r].pc = "done" /\ req[r].status = 401)

\* the responses of the identity service that count as a failed lookup: the
\* call threw (timeout, error status) or returned no user
FailedResponses(username) ==
    {response \in LookupResponses(username) :
        ~lookupRobloxUsername(username, response).found}

\* the remote lookup of this request was made and yielded no display name
LookupYieldedNothing(r) ==
    /\ req[r].lookups = 1
    /\ req[r].pc # "lookup"
    /\ req[r].dname = Null

\* C13: a failed remote identity lookup never stops ingestion.  Whatever
\* failed response arrives, the handler goes on to the upsert with the
\* extracted handle as username candidate and a null display-name
\* candidate; the statement, once executed, stores the handle and adds the
\* event's amount to the total of its key, and the answer is then 200 (a
\* 500 after a failed lookup comes from a failed store write only).
C13_LookupFailureNotFatal ==
    /\ \A r \in Reqs :
          req[r].pc = "lookup" =>
              \A response \in FailedResponses(req[r].atUsername) :
                  /\ AfterLookup(req[r], response).pc = "upsert"
                  /\ AfterLookup(req[r], response).dname = Null
                  /\ AfterLookup(req[r], response).status = 0
    /\ \A r \in Arrived :
          LookupYieldedNothing(r) =>
              /\ req[r].pc = "upsert" \/ req[r].upsert # "none"
              /\ UpsertParams(req[r]).roblox_username = req[r].atUsername
              /\ UpsertParams(req[r]).roblox_display_name = Null
              /\ UpsertParams(req[r]).last_donation_rp = req[r].amount
              /\ req[r].upsert = "ok" =>
                    /\ req[r].stored.roblox_username = req[r].atUsername
                    /\ req[r].stored.last_donation_rp = req[r].amount
                    /\ r \in Credited(req[r].donorKey)
                    /\ req[r].pc = "done" => req[r].status = 200
              /\ req[r].status = 500 => req[r].upsert = "failed"
    /\ TotalsAccounted

\* C13 witness: an event with a handle whose lookup failed was stored under
\* its handle, without display name, with a positive amount in the total,
\* and answered 200
C13_Witness ==
    \E r \in Reqs :
        /\ LookupYieldedNothing(r)
        /\ req[r].pc = "done" /\ req[r].status = 200
        /\ req[r].upsert = "ok" /\ Positive(req[r].amount)
        /\ req[r].stored.roblox_username = req[r].atUsername
        /\ req[r].stored.roblox_display_name = Null
        /\ donations[req[r].donorKey].total_rp = req[r].amount

\* the row of this request's donor key stores its handle with a non-empty
\* display name
RowNamesHandle(r) ==
    /\ HasHandle(r)
    /\ req[r].donorKey \in DOMAIN donations
    /\ donations[req[r].donorKey].roblox_username = req[r].atUsername
    /\ Truthy(donations[req[r].donorKey].roblox_display_name)

\* C14 as stated: once a row stores a non-empty display name for a handle,
\* no event for that handle triggers a remote lookup any more (no step
\* starts a lookup for a request whose row already names its handle).
C14_NoLookupOnceNamed ==
    [][\A r \in Reqs :
          (req[r].pc = "select" /\ RowNamesHandle(r))
              => req'[r].lookups = req[r].lookups]_vars

\* C15: missing or malformed fields are defaulted, not rejected: a stored
\* event without amount is persisted with amount zero, a stored event
\* without name is persisted with a sentinel label (never without label),
\* a stored event is acknowledged with 200, and an event with a malformed
\* amount is never answered 500 (stated for a server with its secret
\* configured).
C15_DefaultsPersisted ==
    Truthy(BAGIBAGI_TOKEN) =>
        /\ \A r \in Arrived :
              req[r].upsert = "ok" =>
                  /\ "amount" \notin DOMAIN req[r].body =>
                        req[r].stored.last_donation_rp = Zero
                  /\ ~Truthy(bagibagiName(req[r].body)) =>
                        Truthy(req[r].stored.bagibagi_name)
                  /\ req[r].pc = "done" => req[r].status = 200
        /\ \A r \in Arrived :
              amountIsNaN(req[r].body) => req[r].status # 500

\* the totals the lookup is said to answer: by username field, else by the
\* key user:<lowercased username>, else zero
TotalForAsStated(table, username) ==
    LET byName == {k \in DOMAIN table : table[k].roblox_username = username}
    IN  IF byName # {}
        THEN {table[k].total_rp : k \in byName}
        ELSE IF (S_user \o ToLower(username)) \in DOMAIN table
        THEN {table[S_user \o ToLower(username)].total_rp}
        ELSE {Zero}

\* C16: in every reachable store state the player-total lookup answers the
\* total of a row whose username field equals the given username, otherwise
\* the total of the row with key user:<lowercased username>, otherwise zero:
\* whenever the handler answers 200, the total it gives is the one so
\* stated of the store it has just read (stated for a server with its
\* secret configured).
C16_TotalForFallsBackLowercased ==
    [][(/\ Truthy(BAGIBAGI_TOKEN)
        /\ totalReq.pc # "done"
        /\ totalReq'.pc = "done"
        /\ totalReq'.status = 200)
          => totalReq'.total_rp
                \in TotalForAsStated(donations, totalReq.username)]_vars

\* C17: the webhook response does not wait on the notifier: given that
\* store operations and the identity lookup return, once an event's upsert
\* has succeeded its request is eventually answered, even if the outbound
\* notification call never completes (stated for a server with its secret
\* configured).
C17_AckDoesNotWaitOnNotifier ==
    Truthy(BAGIBAGI_TOKEN) =>
        \A r \in Reqs : (req[r].upsert = "ok") ~> (req[r].pc = "done")

\* C18: every webhook request is answered once, with 200, 401 or 500: 401
\* only when signature verification failed, 500 only when persistence
\* failed, 200 only after the event's upsert was committed, the row of its
\* donor key then existing and including its amount (stated for a server
\* with its secret configured).
C18_AnswerTellsOutcome ==
    Truthy(BAGIBAGI_TOKEN) =>
        \A r \in Arrived :
            /\ req[r].pc = "done" <=> req[r].status \in {200, 401, 500}
            /\ req[r].pc # "done" => req[r].status = 0
            /\ req[r].status = 401 => BadSignature(r)
            /\ req[r].status = 500 => req[r].upsert = "failed"
            /\ req[r].status = 200 =>
                  /\ req[r].upsert = "ok"
                  /\ req[r].donorKey \in DOMAIN donations
                  /\ donations[req[r].donorKey].total_rp
                        = SumAmounts(Credited(req[r].donorKey))

\* C19: events for different donor keys are independent.  In every step,
\* under any interleaving, the only row created or changed is the row whose
\* key is the donor key of the request whose upsert statement the step
\* executes; every other row is left as it was, no row is deleted and no
\* row's donor key changes.
C19_OtherKeysUntouched ==
    [][LET upserting == {r \in Reqs : req[r].pc = "upsert" /\ req'[r].pc # "upsert"}
           touched == {req[r].donorKey : r \in upserting}
       IN  /\ \A k \in DOMAIN donations :
                 /\ k \in DOMAIN donations'
                 /\ donations'[k].donor_key = donations[k].donor_key
           /\ \A k \in DOMAIN donations' :
                 k \notin touched =>
                     /\ k \in DOMAIN donations
                     /\ donations'[k] = donations[k]]_vars

\* C19 witness: two events with different donor keys were both stored; the
\* row of the earlier arrival is still the row its own upsert returned, next
\* to the row of the other key
C19_Witness ==
    \E a, b \in Reqs :
        /\ a < b
        /\ req[a].pc = "done" /\ req[b].pc = "done"
        /\ req[a].upsert = "ok" /\ req[b].upsert = "ok"
        /\ req[a].donorKey # req[b].donorKey
        /\ req[a].amount # Zero /\ req[b].amount # Zero
        /\ donations[req[a].donorKey] = req[a].stored
        /\ donations[req[b].donorKey] = req[b].stored

\* C20: in every reachable store state each row's roblox_username is null
\* or donor_key = "user:" + roblox_username.  A non-null username candidate
\* is proposed only by an event with an extracted handle, and the donor key
\* of such an event is built from that handle, whatever donor_key its
\* payload carries and however the events interleave.
C20_UsernameMatchesKey ==
    /\ \A k \in DOMAIN donations :
          \/ donations[k].roblox_username = Null
          \/ donations[k].donor_key = S_user \o donations[k].roblox_username
    /\ \A r \in Arrived :
          req[r].pc \in {"select", "lookup", "upsert", "notify"}
                \/ req[r].upsert # "none" =>
              /\ UpsertParams(req[r]).roblox_username = req[r].atUsername
              /\ HasHandle(r) => req[r].donorKey = S_user \o req[r].atUsername

\* C20 witness: an event with a handle and another donor_key in its payload
\* was stored under the key of its handle, next to an event stored under
\* the donor_key of its payload, without username
C20_Witness ==
    \E a, b \in Reqs :
        /\ req[a].upsert = "ok" /\ req[b].upsert = "ok"
        /\ HasHandle(a) /\ "donor_key" \in DOMAIN req[a].body
        /\ req[a].body.donor_key # req[a].donorKey
        /\ donations[req[a].donorKey].roblox_username = req[a].atUsername
        /\ ~HasHandle(b) /\ "donor_key" \in DOMAIN req[b].body
        /\ req[b].donorKey = req[b].body.donor_key
        /\ donations[req[b].donorKey].roblox_username = Null

====
